---- MODULE Spec2Model ----
(***************************************************************************)
(* The Streamlit taxi-fare page of app.py as a state machine.              *)
(*                                                                         *)
(* One user interaction (page load, selection change, button press) makes *)
(* Streamlit run the script from its first line.  A script run is two      *)
(* steps here: the top of the script (the two suggestion lookups and the   *)
(* two selectboxes, lines 85-98) and the rest of it (the button handlers   *)
(* and the map, lines 101-170).  st.rerun() starts a second run inside the *)
(* same interaction.  An exception nobody catches ends the run.            *)
(*                                                                         *)
(* Floats are written as the text Python prints for them ("40.7614"), the  *)
(* JSON null / Python None is the string "None".                           *)
(***************************************************************************)
EXTENDS Integers, Sequences, FiniteSets, TLC

VARIABLES
    session,            \* st.session_state: two location texts, four coordinates
    pc,                 \* where the script stands: "top" (line 85), "body" (line 101), "idle" (no run)
    button,             \* the button that is True in the current run
    pickup_location,    \* value of the "pickup" selectbox in the current run
    dropoff_location,   \* value of the "dropoff" selectbox in the current run
    action,             \* the user interaction being served
    events,             \* network calls, messages and uncaught exceptions of the interaction, in order
    handler,            \* the button handler the interaction ran: "", "update" or "predict"
    lookups,            \* the get_coordinates calls of the interaction: place, response, result
    ride,               \* the fare request of the interaction, if one was sent, and its response
    press               \* the six values written by the last successful 'Update Locations'

vars == <<session, pc, button, pickup_location, dropoff_location, action,
          events, handler, lookups, ride, press>>

----------------------------------------------------------------------------
(* Bounds of the model *)

MaxFeatures == 2        \* longest feature list in a geocoding response
MaxSuggestions == 2     \* longest feature list in a suggestions response

----------------------------------------------------------------------------
(* Values *)

None == "None"

SeqsUpTo(S, n) == UNION {[1..k -> S] : k \in 0..n}

Elems(s) == {s[i] : i \in 1..Len(s)}

default_locations ==
    [pickup_location  |-> "Times Square, New York",
     dropoff_location |-> "JFK Airport, New York"]

default_coords ==
    [pickup_latitude   |-> "40.7614",
     pickup_longitude  |-> "-73.9776",
     dropoff_latitude  |-> "40.6413",
     dropoff_longitude |-> "-73.7781"]

CoordKeys == {"pickup_latitude", "pickup_longitude", "dropoff_latitude", "dropoff_longitude"}

\* place names the suggestions service may offer
PlaceNames == {"Empire State Building", "Central Park"}

\* [longitude, latitude] pairs the first feature of a geocoding response may
\* carry; a JSON document may hold null in either place, and 0.0 is a
\* latitude like any other
Centers ==
    {<<"-73.9855", "40.758">>,
     <<"-73.9665", "40.7812">>,
     <<None, "40.6892">>,
     <<"-74.0445", "0.0">>}

\* the center of the features ranked below the first one
LowerRanked == <<"-74.0060", "40.7128">>

\* feature lists of a geocoding response: empty, or a first feature and up to
\* MaxFeatures - 1 lower-ranked ones
FeatureLists ==
    {<<>>} \cup {<<c>> \o [i \in 1..k |-> LowerRanked] :
                    c \in Centers, k \in 0..(MaxFeatures - 1)}

Fares == {"23.456", "7.5"}

Datetimes == {"2025-03-01 12:00:00", "2025-12-31 23:59:59"}

\* st.slider("Number of Passengers", 1, 8, 1)
PassengerCounts == 1..8

\* Python truth value of a float or None
Truthy(v) == v # None /\ v # "0.0"

----------------------------------------------------------------------------
(* What requests.get can give: an exception, or a response with a status, *)
(* a body that is or is not JSON, and in the JSON the key the code reads.  *)

Raised(e) ==
    [exception |-> e, status_code |-> 0, is_json |-> FALSE, has_key |-> FALSE,
     value |-> <<>>, text |-> ""]

Answer(status, json, key, v, t) ==
    [exception |-> "", status_code |-> status, is_json |-> json, has_key |-> key,
     value |-> v, text |-> t]

ServiceResponses(Values) ==
    {Raised("ConnectionError")}
    \cup {Answer(500, TRUE, FALSE, <<>>, "Internal Server Error"),
          Answer(200, FALSE, FALSE, <<>>, "<html>"),
          Answer(200, TRUE, FALSE, <<>>, "{}")}
    \cup {Answer(200, TRUE, TRUE, v, "{...}") : v \in Values}

GeocodingResponses == ServiceResponses(FeatureLists)

SuggestionResponses == ServiceResponses(SeqsUpTo(PlaceNames, MaxSuggestions))

\* the fare of a response is the one-element list <<fare>>
FareResponses ==
    ServiceResponses({<<f>> : f \in Fares})
    \cup {Answer(503, FALSE, FALSE, <<>>, "Service Unavailable")}

----------------------------------------------------------------------------
(* Events of an interaction *)

Call(api) == [type |-> "call", what |-> api, text |-> <<>>]

Show(level, parts) == [type |-> "show", what |-> level, text |-> parts]

Uncaught(e) == [type |-> "uncaught", what |-> e, text |-> <<>>]

----------------------------------------------------------------------------
(* get_coordinates, lines 48-59: the result is lat, lon, or the exception  *)
(* that leaves the function                                                *)

Coordinates(e, lat, lon) == [exception |-> e, lat |-> lat, lon |-> lon]

\* a faulty variant: the center pair is read as [latitude, longitude]
get_coordinates_unswapped(response) ==
    IF response.exception # "" THEN Coordinates(response.exception, None, None)
    ELSE IF response.status_code = 200 THEN
        IF ~response.is_json THEN Coordinates("JSONDecodeError", None, None)
        ELSE IF response.has_key /\ Len(response.value) > 0 THEN
            LET center == response.value[1]
                lat == center[1]
                lon == center[2]
            IN  Coordinates("", lat, lon)
        ELSE Coordinates("", None, None)
    ELSE Coordinates("", None, None)

get_coordinates(response) ==
    IF response.exception # "" THEN Coordinates(response.exception, None, None)
    ELSE IF response.status_code = 200 THEN
        IF ~response.is_json THEN Coordinates("JSONDecodeError", None, None)
        ELSE IF response.has_key /\ Len(response.value) > 0 THEN
            LET center == response.value[1]
                lon == center[1]
                lat == center[2]
            IN  Coordinates("", lat, lon)
        ELSE Coordinates("", None, None)
    ELSE Coordinates("", None, None)

(* get_suggestions, lines 61-79: the list of place names, whether a request *)
(* was made, and the exception that leaves the function.  Line 73 prints   *)
(* response.json() whatever the status.                                    *)

Suggestions(e, called, names) == [exception |-> e, called |-> called, names |-> names]

get_suggestions(query, response) ==
    IF query = "" THEN Suggestions("", FALSE, <<>>)
    ELSE IF response.exception # "" THEN Suggestions(response.exception, TRUE, <<>>)
    ELSE IF ~response.is_json THEN Suggestions("JSONDecodeError", TRUE, <<>>)
    ELSE IF response.status_code = 200 THEN
        Suggestions("", TRUE, IF response.has_key THEN response.value ELSE <<>>)
    ELSE Suggestions("", TRUE, <<>>)

\* what a lookup adds to the events
LookupEvents(api, called, e) ==
    (IF called THEN <<Call(api)>> ELSE <<>>)
    \o (IF e # "" THEN <<Uncaught(e)>> ELSE <<>>)

\* options=... of a selectbox, lines 88 and 96
Options(suggestions, current) ==
    IF suggestions # <<>> THEN suggestions ELSE <<current>>

\* st.selectbox with a key: the widget keeps its value while that value is
\* among the options, and falls back to the first option otherwise
selectbox(options, value) ==
    IF value \in Elems(options) THEN value ELSE options[1]

----------------------------------------------------------------------------
(* The top of the script, lines 85-98: two suggestion lookups, each        *)
(* followed by its selectbox.  An exception in a lookup ends the run.      *)

TopResult(e, evs, p, d) == [exception |-> e, events |-> evs, pickup |-> p, dropoff |-> d]

SuggestionOutcomes(query) == {get_suggestions(query, r) : r \in SuggestionResponses}

TopOutcomes(sess, wp, wd) ==
    UNION {
        IF s1.exception # ""
        THEN {TopResult(s1.exception, LookupEvents("suggestions", s1.called, s1.exception), wp, wd)}
        ELSE LET p == selectbox(Options(s1.names, sess.pickup_location), wp)
                 e1 == LookupEvents("suggestions", s1.called, "")
             IN  {IF s2.exception # ""
                  THEN TopResult(s2.exception,
                                 e1 \o LookupEvents("suggestions", s2.called, s2.exception), p, wd)
                  ELSE TopResult("", e1 \o LookupEvents("suggestions", s2.called, ""), p,
                                 selectbox(Options(s2.names, sess.dropoff_location), wd))
                  : s2 \in SuggestionOutcomes(sess.dropoff_location)}
        : s1 \in SuggestionOutcomes(sess.pickup_location)}

NoRide ==
    [sent |-> FALSE, pickup_datetime |-> "", passenger_count |-> 0, url |-> <<>>,
     response |-> Raised("")]

\* lines 85-98 of the run that is under way
ScriptTop ==
    /\ pc = "top"
    /\ \E o \in TopOutcomes(session, pickup_location, dropoff_location) :
        /\ events' = events \o o.events
        /\ pickup_location' = o.pickup
        /\ dropoff_location' = o.dropoff
        /\ pc' = IF o.exception # "" THEN "idle" ELSE "body"
    /\ UNCHANGED <<session, press, button, action, handler, lookups, ride>>

----------------------------------------------------------------------------
(* Lines 118-139: the validity check and the map *)

RenderMap(sess) ==
    IF None \in {sess.pickup_latitude, sess.pickup_longitude,
                 sess.dropoff_latitude, sess.dropoff_longitude}
    THEN <<Show("warning", <<"Invalid location coordinates. Please update the locations.">>)>>
    ELSE <<Show("map", <<sess.pickup_latitude, sess.pickup_longitude,
                         sess.dropoff_latitude, sess.dropoff_longitude>>)>>

----------------------------------------------------------------------------
(* 'Update Locations', lines 101-115 *)

Lookup(place, response) ==
    [place |-> place, response |-> response, result |-> get_coordinates(response)]

\* line 105
BothFound(pickup_lat, dropoff_lat) == Truthy(pickup_lat) /\ Truthy(dropoff_lat)

\* a faulty variant: the dropoff text is left as it was
StoreLocations_partial(sess, pickup, dropoff, p, d) ==
    [sess EXCEPT !.pickup_location = pickup,
                 !.pickup_latitude = p.lat,
                 !.pickup_longitude = p.lon,
                 !.dropoff_latitude = d.lat,
                 !.dropoff_longitude = d.lon]

\* lines 106-111
StoreLocations(sess, pickup, dropoff, p, d) ==
    [sess EXCEPT !.pickup_location = pickup,
                 !.dropoff_location = dropoff,
                 !.pickup_latitude = p.lat,
                 !.pickup_longitude = p.lon,
                 !.dropoff_latitude = d.lat,
                 !.dropoff_longitude = d.lon]

NotFoundMessage ==
    Show("error", <<"Could not find coordinates for one or both locations. Try another address.">>)

\* the run ends here with an exception nobody caught
Crash(evs, lks) ==
    /\ events' = evs
    /\ lookups' = lks
    /\ pc' = "idle"
    /\ UNCHANGED <<session, press, button, pickup_location, dropoff_location, action, ride>>

UpdateLocations ==
    /\ pc = "body"
    /\ button = "update"
    /\ handler' = "update"
    /\ \E r1 \in GeocodingResponses :
        LET l1 == Lookup(pickup_location, r1)
            p == l1.result
            e1 == events \o LookupEvents("geocoding", TRUE, p.exception)
        IN  IF p.exception # "" THEN Crash(e1, <<l1>>)
            ELSE \E r2 \in GeocodingResponses :
                LET l2 == Lookup(dropoff_location, r2)
                    d == l2.result
                    e2 == e1 \o LookupEvents("geocoding", TRUE, d.exception)
                IN  IF d.exception # "" THEN Crash(e2, <<l1, l2>>)
                    ELSE IF BothFound(p.lat, d.lat)
                    THEN /\ session' = StoreLocations(session, pickup_location, dropoff_location, p, d)
                         /\ press' = [pickup_location |-> pickup_location,
                                      dropoff_location |-> dropoff_location,
                                      pickup_latitude |-> l1.result.lat,
                                      pickup_longitude |-> l1.result.lon,
                                      dropoff_latitude |-> l2.result.lat,
                                      dropoff_longitude |-> l2.result.lon]
                         /\ events' = e2
                         /\ lookups' = <<l1, l2>>
                         /\ pc' = "top"
                         /\ button' = "none"
                         /\ UNCHANGED <<pickup_location, dropoff_location, action, ride>>
                    ELSE /\ events' = e2 \o <<NotFoundMessage>> \o RenderMap(session)
                         /\ lookups' = <<l1, l2>>
                         /\ pc' = "idle"
                         /\ UNCHANGED <<session, press, button, pickup_location,
                                        dropoff_location, action, ride>>

----------------------------------------------------------------------------
(* 'Predict Fare', lines 144-170 *)

\* float() of a float is that float; float(None) raises TypeError
float(v) == CASE v # None -> v

\* a faulty variant: the pickup longitude and latitude change places
ride_data_exchanged(sess, pickup_datetime, passenger_count) ==
    << <<"pickup_datetime", pickup_datetime>>,
       <<"pickup_longitude", float(sess.pickup_latitude)>>,
       <<"pickup_latitude", float(sess.pickup_longitude)>>,
       <<"dropoff_longitude", float(sess.dropoff_longitude)>>,
       <<"dropoff_latitude", float(sess.dropoff_latitude)>>,
       <<"passenger_count", passenger_count>> >>

\* lines 147-154: the dict, in insertion order
ride_data(sess, pickup_datetime, passenger_count) ==
    << <<"pickup_datetime", pickup_datetime>>,
       <<"pickup_longitude", float(sess.pickup_longitude)>>,
       <<"pickup_latitude", float(sess.pickup_latitude)>>,
       <<"dropoff_longitude", float(sess.dropoff_longitude)>>,
       <<"dropoff_latitude", float(sess.dropoff_latitude)>>,
       <<"passenger_count", passenger_count>> >>

\* f'{k}={v}': the passenger count is the one int among the values
Format(item) ==
    <<item[1], "=", IF item[1] = "passenger_count" THEN ToString(item[2]) ELSE item[2]>>

\* '&'.join(parts)
RECURSIVE Join(_)
Join(parts) ==
    IF parts = <<>> THEN <<>>
    ELSE IF Len(parts) = 1 THEN parts[1]
    ELSE parts[1] \o <<"&">> \o Join(Tail(parts))

api_url == "https://taxifare.lewagon.ai/predict"

\* line 158: the URL, as the pieces of text it is put together from
RequestUrl(data) ==
    <<api_url, "?">> \o Join([i \in 1..Len(data) |-> Format(data[i])])

\* round(fare, 2) as Python prints it
round2(fare) ==
    CASE fare = "23.456" -> "23.46"
      [] fare = "7.5" -> "7.5"

\* lines 160-170: the message the handler shows for what requests.get gave
FareMessage(response) ==
    IF response.exception # "" THEN Show("error", <<"Error: ", response.exception>>)
    ELSE IF response.status_code = 200 THEN
        IF ~response.is_json THEN Show("error", <<"Error: ", "JSONDecodeError">>)
        ELSE IF response.has_key
        THEN Show("success", <<"Predicted Fare: **$", round2(response.value[1]), "**">>)
        ELSE Show("error", <<"Error: API response did not contain a fare value.">>)
    ELSE Show("error", <<"Error: ", ToString(response.status_code), " - ", response.text>>)

\* a faulty variant: a status other than 200 is tried once more
FareEvents_retry(response) ==
    IF response.exception = "" /\ response.status_code # 200
    THEN <<Call("fare"), Call("fare"), FareMessage(response)>>
    ELSE <<Call("fare"), FareMessage(response)>>

\* the requests the handler makes for one press, and what it shows
FareEvents(response) == <<Call("fare"), FareMessage(response)>>

PredictFare ==
    /\ pc = "body"
    /\ button = "predict"
    /\ handler' = "predict"
    /\ pc' = "idle"
    /\ UNCHANGED <<session, press, button, pickup_location, dropoff_location, action, lookups>>
    /\ IF \E k \in CoordKeys : session[k] = None
       THEN /\ events' = events \o RenderMap(session) \o <<Uncaught("TypeError")>>
            /\ ride' = NoRide
       ELSE \E pickup_datetime \in Datetimes, passenger_count \in PassengerCounts,
               response \in FareResponses :
                /\ events' = events \o RenderMap(session) \o FareEvents(response)
                /\ ride' = [sent |-> TRUE,
                            pickup_datetime |-> pickup_datetime,
                            passenger_count |-> passenger_count,
                            url |-> RequestUrl(ride_data(session, pickup_datetime, passenger_count)),
                            response |-> response]

\* a run in which no button is True
NoButton ==
    /\ pc = "body"
    /\ button = "none"
    /\ events' = events \o RenderMap(session)
    /\ pc' = "idle"
    /\ UNCHANGED <<session, press, button, pickup_location, dropoff_location, action,
                   handler, lookups, ride>>

----------------------------------------------------------------------------
(* The user and Streamlit *)

\* a widget changed: Streamlit drops what the last run showed and runs the
\* script again, with button b True
StartRun(act, b, wp, wd) ==
    /\ pc = "idle"
    /\ pc' = "top"
    /\ action' = act
    /\ button' = b
    /\ pickup_location' = wp
    /\ dropoff_location' = wd
    /\ events' = <<>>
    /\ handler' = ""
    /\ lookups' = <<>>
    /\ ride' = NoRide
    /\ UNCHANGED <<session, press>>

\* the user picks another entry in one of the two selectboxes
ChangeSelection ==
    \E v \in PlaceNames :
        \E box \in {"pickup", "dropoff"} :
            StartRun("select", "none",
                     IF box = "pickup" THEN v ELSE pickup_location,
                     IF box = "dropoff" THEN v ELSE dropoff_location)

PressUpdate == StartRun("update", "update", pickup_location, dropoff_location)

PressPredict == StartRun("predict", "predict", pickup_location, dropoff_location)

\* lines 22-43: a new session holds the defaults, no widget has a value yet,
\* and the first run of the script is about to reach line 85
Init ==
    /\ session = [pickup_location |-> default_locations.pickup_location,
                  dropoff_location |-> default_locations.dropoff_location,
                  pickup_latitude |-> default_coords.pickup_latitude,
                  pickup_longitude |-> default_coords.pickup_longitude,
                  dropoff_latitude |-> default_coords.dropoff_latitude,
                  dropoff_longitude |-> default_coords.dropoff_longitude]
    /\ press = session
    /\ pc = "top"
    /\ button = "none"
    /\ pickup_location = ""
    /\ dropoff_location = ""
    /\ action = "load"
    /\ events = <<>>
    /\ handler = ""
    /\ lookups = <<>>
    /\ ride = NoRide

Next ==
    \/ ChangeSelection
    \/ PressUpdate
    \/ PressPredict
    \/ ScriptTop
    \/ NoButton
    \/ UpdateLocations
    \/ PredictFare

Spec == Init /\ [][Next]_vars

----------------------------------------------------------------------------
(* What the properties below read off a state *)

Count(api) == Cardinality({i \in 1..Len(events) : events[i] = Call(api)})

NCalls == Cardinality({i \in 1..Len(events) : events[i].type = "call"})

Crashed == \E i \in 1..Len(events) : events[i].type = "uncaught"

IsShown(m) == \E i \in 1..Len(events) : events[i] = m

\* the interaction is over: its last run has ended
Over == pc = "idle"

CoordinateWarning == RenderMap([session EXCEPT !.pickup_latitude = None])[1]

\* the messages of the 'Predict Fare' handler among the events
FareResults ==
    {i \in 1..Len(events) :
        /\ events[i].type = "show"
        /\ events[i].what \in {"success", "error"}
        /\ events[i] # NotFoundMessage}

\* get_coordinates gave back (None, None)
Unresolved(l) == l.result = Coordinates("", None, None)

\* a response the geocoding service gives when it has no place to offer
NoPlace(r) ==
    /\ r.exception = ""
    /\ \/ r.status_code # 200
       \/ r.is_json /\ (~r.has_key \/ r.value = <<>>)

\* a 200 response with at least one feature
HasPlace(r) ==
    r.exception = "" /\ r.status_code = 200 /\ r.is_json /\ r.has_key /\ Len(r.value) > 0

\* a text cut at every sep
RECURSIVE SplitOn(_, _)
SplitOn(tokens, sep) ==
    IF tokens = <<>> THEN << <<>> >>
    ELSE LET rest == SplitOn(Tail(tokens), sep)
         IN  IF Head(tokens) = sep THEN << <<>> >> \o rest
             ELSE << <<Head(tokens)>> \o rest[1] >> \o Tail(rest)

\* the parameters of a URL, as the server reads them: what follows "?", cut
\* at "&", each piece cut at "="
QueryParams(url) ==
    LET pieces == SplitOn(SubSeq(url, 3, Len(url)), "&")
    IN  [i \in 1..Len(pieces) |-> SplitOn(pieces[i], "=")]

WellFormedParams(ps) ==
    \A i \in 1..Len(ps) : Len(ps[i]) = 2 /\ Len(ps[i][1]) = 1 /\ Len(ps[i][2]) = 1

\* the values a parameter name carries in the query
ValuesOf(ps, name) == {ps[i][2][1] : i \in {j \in 1..Len(ps) : ps[j][1][1] = name}}

Occurrences(ps, name) == Cardinality({j \in 1..Len(ps) : ps[j][1][1] = name})

ParamNames ==
    {"pickup_datetime", "pickup_longitude", "pickup_latitude",
     "dropoff_longitude", "dropoff_latitude", "passenger_count"}

----------------------------------------------------------------------------
(* C1: every fare request carries four non-null coordinates; an 'Update    *)
(* Locations' press in which get_coordinates leaves the pickup or the      *)
(* dropoff unresolved sends no fare request, shows the failure as an error *)
(* message, and stores no null coordinate in the session.                  *)

C1_RequestsCarryCoordinates ==
    /\ ride.sent =>
          LET ps == QueryParams(ride.url)
          IN  /\ WellFormedParams(ps)
              /\ \A k \in CoordKeys : Occurrences(ps, k) = 1 /\ None \notin ValuesOf(ps, k)
    /\ (Over /\ handler = "update" /\ \E i \in 1..Len(lookups) : Unresolved(lookups[i])) =>
          /\ Count("fare") = 0
          /\ IsShown(NotFoundMessage)
          /\ \A k \in CoordKeys : session[k] = None => press[k] = None

(* C2: when the 'Predict Fare' handler runs with one of the four session   *)
(* coordinates null, it sends no request and emits the warning, and the    *)
(* run does not end in an uncaught exception.                              *)

C2_NullCoordinateRefused ==
    (Over /\ handler = "predict" /\ \E k \in CoordKeys : session[k] = None) =>
        /\ Count("fare") = 0
        /\ IsShown(CoordinateWarning)
        /\ ~Crashed

(* C3: no script run ends with an uncaught exception: every failure of a   *)
(* suggestions, geocoding or fare call is caught at the call.              *)

C3_NothingUncaught == ~Crashed

(* C4, as the spec states it: an interaction makes at most one outbound    *)
(* call.                                                                   *)

C4_AtMostOneCall == Over /\ action \in {"select", "update", "predict"} => NCalls <= 1

(* C4, amended: every script run makes at most two suggestions lookups;    *)
(* an interaction makes at most four of them (a run, and the rerun after   *)
(* a successful update), at most two geocoding lookups and only on         *)
(* 'Update Locations', at most one fare request and only on 'Predict Fare';*)
(* the message about a call's outcome is shown after the call.             *)

C4_CallsPerInteraction ==
    /\ Count("suggestions") <= (IF action = "update" THEN 4 ELSE 2)
    /\ Count("geocoding") <= (IF action = "update" THEN 2 ELSE 0)
    /\ Count("fare") <= (IF action = "predict" THEN 1 ELSE 0)
    /\ \A i \in FareResults : i > 1 /\ events[i - 1] = Call("fare")
    /\ \A i \in 1..Len(events) :
          events[i] = NotFoundMessage => i > 2 /\ events[i - 1] = Call("geocoding")
                                               /\ events[i - 2] = Call("geocoding")

C4_Witness ==
    /\ Over
    /\ action = "update"
    /\ Count("suggestions") = 4
    /\ Count("geocoding") = 2
    /\ NCalls = 6

(* C5: each press of 'Predict Fare' issues exactly one fare request, and   *)
(* on a non-success status the error shown contains the status code.       *)

C5_ExactlyOneRequest ==
    (Over /\ action = "predict") =>
        /\ Count("fare") = 1
        /\ (ride.response.exception = "" /\ ride.response.status_code # 200) =>
              \E i \in FareResults :
                  \E j \in 1..Len(events[i].text) :
                      events[i].text[j] = ToString(ride.response.status_code)

(* C6: each press of 'Predict Fare' shows exactly one of four results: the *)
(* fare, the missing-field error, the service error with status and body,  *)
(* the transport error with the exception text.                            *)

C6_OneResultPerPress ==
    (Over /\ action = "predict") =>
        /\ Cardinality(FareResults) = 1
        /\ \A i \in FareResults :
            LET r == ride.response
                m == events[i]
            IN  /\ (r.exception # "") => m = Show("error", <<"Error: ", r.exception>>)
                /\ (r.exception = "" /\ r.status_code # 200) =>
                      m = Show("error", <<"Error: ", ToString(r.status_code), " - ", r.text>>)
                /\ (r.exception = "" /\ r.status_code = 200 /\ r.is_json /\ ~r.has_key) =>
                      /\ m = Show("error", <<"Error: API response did not contain a fare value.">>)
                      /\ m # Show("error", <<"Error: ", "ConnectionError">>)
                /\ (r.exception = "" /\ r.status_code = 200 /\ r.is_json /\ r.has_key) =>
                      m = Show("success", <<"Predicted Fare: **$", round2(r.value[1]), "**">>)

(* C7: for a 200 response with at least one feature, get_coordinates gives *)
(* the first feature's center [lon, lat] back as (lat, lon), and a         *)
(* successful 'Update Locations' stores that latitude in *_latitude and    *)
(* that longitude in *_longitude.                                          *)

FirstCenter(l) == l.response.value[1]

\* the press whose lookups are in the state stored its values
Stored ==
    /\ handler = "update"
    /\ Len(lookups) = 2
    /\ \A i \in 1..2 : lookups[i].result.exception = "" /\ Truthy(lookups[i].result.lat)

C7_SwappedOnce ==
    /\ \A i \in 1..Len(lookups) :
          HasPlace(lookups[i].response) =>
              lookups[i].result = Coordinates("", FirstCenter(lookups[i])[2],
                                              FirstCenter(lookups[i])[1])
    /\ Stored =>
          /\ session.pickup_longitude = FirstCenter(lookups[1])[1]
          /\ session.pickup_latitude = FirstCenter(lookups[1])[2]
          /\ session.dropoff_longitude = FirstCenter(lookups[2])[1]
          /\ session.dropoff_latitude = FirstCenter(lookups[2])[2]

\* a press that stored two different places, each the first of several features
C7_Witness ==
    /\ Over
    /\ Stored
    /\ \A i \in 1..2 : Len(lookups[i].response.value) > 1
                       /\ lookups[i].response.value[2] # FirstCenter(lookups[i])
    /\ Cardinality({session[k] : k \in CoordKeys}) = 4
    /\ None \notin {session[k] : k \in CoordKeys}

(* C8: on a non-success status, or a success status with no feature,       *)
(* get_coordinates returns (None, None) and does not raise; the 'Update    *)
(* Locations' handler then shows the soft error and the run goes on.       *)

C8_UnresolvedIsSoft ==
    /\ \A i \in 1..Len(lookups) :
          NoPlace(lookups[i].response) => Unresolved(lookups[i])
    /\ (Over /\ handler = "update"
             /\ \E i \in 1..Len(lookups) : NoPlace(lookups[i].response)) =>
          IsShown(NotFoundMessage) /\ ~Crashed

(* C9: the query string of a fare request holds exactly the six parameters,*)
(* each once, each with the session's value for that name, the timestamp   *)
(* and the passenger count of the press.                                   *)

C9_QueryString ==
    ride.sent =>
        LET ps == QueryParams(ride.url)
        IN  /\ WellFormedParams(ps)
            /\ Len(ps) = 6
            /\ \A name \in ParamNames : Occurrences(ps, name) = 1
            /\ ValuesOf(ps, "pickup_datetime") = {ride.pickup_datetime}
            /\ ValuesOf(ps, "passenger_count") = {ToString(ride.passenger_count)}
            /\ \A k \in CoordKeys : ValuesOf(ps, k) = {session[k]}

\* a request sent for coordinates an earlier press stored, all four different
C9_Witness ==
    /\ ride.sent
    /\ Cardinality({session[k] : k \in CoordKeys}) = 4
    /\ \A k \in CoordKeys : session[k] # default_coords[k]
    /\ ride.passenger_count > 1

(* C10: an 'Update Locations' press replaces all six session fields by the *)
(* values of that press, or leaves all six as they were; so the session    *)
(* always holds the defaults or the six values of one successful press.    *)

C10_AllOrNothing ==
    [][/\ session = press
       /\ session' = press'
       /\ (pc = "body" /\ button = "update") =>
             \/ session' = session
             \/ /\ Len(lookups') = 2
                /\ \A i \in 1..2 : ~Unresolved(lookups'[i]) /\ lookups'[i].result.exception = ""
                /\ session' = [pickup_location |-> pickup_location,
                               dropoff_location |-> dropoff_location,
                               pickup_latitude |-> lookups'[1].result.lat,
                               pickup_longitude |-> lookups'[1].result.lon,
                               dropoff_latitude |-> lookups'[2].result.lat,
                               dropoff_longitude |-> lookups'[2].result.lon]
      ]_vars

\* after a successful press, a press in which only the pickup resolves has
\* left the session as it was
C10_Witness ==
    /\ Over
    /\ handler = "update"
    /\ Len(lookups) = 2
    /\ Truthy(lookups[1].result.lat)
    /\ Unresolved(lookups[2])
    /\ session.pickup_latitude # default_coords.pickup_latitude
    /\ session.pickup_latitude # lookups[1].result.lat
    /\ session.pickup_location # pickup_location

====
